---- MODULE Spec2Model ----
(***************************************************************************)
(* A model of src/mparser.py: the tokenizer rules, the grammar rules and  *)
(* their semantic actions, the precedence table, and                       *)
(* build_ast, which runs a PLY lexer and an LALR(1) parser over one text.  *)
(*                                                                         *)
(* Text is a sequence of one-character strings.  Positions (lexpos) are    *)
(* 0-based as in PLY, so the character at position p is data[p + 1].       *)
(* AST nodes are records; the node classes live in the module `nodes`,     *)
(* which is not part of src/ and is modelled after section 3 of the        *)
(* specification.  Leaf nodes, arrays and if-statements carry one history  *)
(* field, lexpos (the position of the token they were built from, PLY's    *)
(* t.lexpos(1)); the program never reads it, the properties do.            *)
(***************************************************************************)
EXTENDS Integers, Sequences, FiniteSets, TLC

(***************************************************************************)
(* Characters                                                              *)
(***************************************************************************)
Lower == {"a", "b", "c", "d", "e", "f", "g", "h", "i", "j", "k", "l", "m",
          "n", "o", "p", "q", "r", "s", "t", "u", "v", "w", "x", "y", "z"}

Upper == {"A", "B", "C", "D", "E", "F", "G", "H", "I", "J", "K", "L", "M",
          "N", "O", "P", "Q", "R", "S", "T", "U", "V", "W", "X", "Y", "Z"}

Letter == Lower \cup Upper

DigitChars == <<"0", "1", "2", "3", "4", "5", "6", "7", "8", "9">>

Digit == {DigitChars[i] : i \in 1..Len(DigitChars)}

\* int(c) for a digit character c.
DigitValue(c) == (CHOOSE i \in 1..Len(DigitChars) : DigitChars[i] = c) - 1

\* What str.rstrip() strips.
Whitespace == {" ", "\t", "\n", "\r", "\f"}

\* The character at position p, or "" past the end.
At(s, p) == IF p >= 0 /\ p < Len(s) THEN s[p + 1] ELSE ""

\* The number of consecutive characters from position p on that are in cls.
RECURSIVE Span(_, _, _)
Span(s, p, cls) ==
    IF p < Len(s) /\ s[p + 1] \in cls THEN 1 + Span(s, p + 1, cls) ELSE 0

\* The number of consecutive characters from position p on that are not in cls.
RECURSIVE SpanNot(_, _, _)
SpanNot(s, p, cls) ==
    IF p < Len(s) /\ s[p + 1] \notin cls THEN 1 + SpanNot(s, p + 1, cls) ELSE 0

\* s[p:q] of Python.
Slice(s, p, q) == SubSeq(s, p + 1, q)

\* s.count('\n')
RECURSIVE CountNewlines(_)
CountNewlines(s) ==
    IF s = <<>> THEN 0
    ELSE (IF Head(s) = "\n" THEN 1 ELSE 0) + CountNewlines(Tail(s))

\* int(s) for a string of digits.
RECURSIVE ParseInt(_)
ParseInt(s) ==
    IF s = <<>> THEN 0
    ELSE 10 * ParseInt(SubSeq(s, 1, Len(s) - 1)) + DigitValue(s[Len(s)])

\* str(n) for n >= 0.
RECURSIVE IntToStr(_)
IntToStr(n) ==
    IF n < 10 THEN <<DigitChars[n + 1]>>
    ELSE Append(IntToStr(n \div 10), DigitChars[(n % 10) + 1])

\* code.rstrip()
RECURSIVE rstrip(_)
rstrip(s) ==
    IF s # <<>> /\ s[Len(s)] \in Whitespace
    THEN rstrip(SubSeq(s, 1, Len(s) - 1))
    ELSE s

(***************************************************************************)
(* Tokenizer                                                               *)
(***************************************************************************)
\* reserved.get(value, 'ATOM')
reserved(value) ==
    CASE value = <<"t", "r", "u", "e">> -> "TRUE"
      [] value = <<"f", "a", "l", "s", "e">> -> "FALSE"
      [] value = <<"i", "f">> -> "IF"
      [] value = <<"e", "n", "d", "i", "f">> -> "ENDIF"
      [] value = <<"e", "l", "s", "e">> -> "ELSE"
      [] value = <<"a", "n", "d">> -> "AND"
      [] value = <<"o", "r">> -> "OR"
      [] value = <<"n", "o", "t">> -> "NOT"
      [] OTHER -> "ATOM"

t_ignore == {" ", "\t"}

\* Each rule's regular expression, as the length of its match at position p
\* (0: no match; no rule matches the empty string).

\* [a-zA-Z][_0-9a-zA-Z]*
re_ATOM(s, p) ==
    IF At(s, p) \in Letter
    THEN 1 + Span(s, p + 1, Letter \cup Digit \cup {"_"})
    ELSE 0

\* The least q >= p such that ''' starts at q, or -1.
RECURSIVE FindTripleQuote(_, _)
FindTripleQuote(s, p) ==
    IF p + 3 > Len(s) THEN -1
    ELSE IF At(s, p) = "'" /\ At(s, p + 1) = "'" /\ At(s, p + 2) = "'" THEN p
    ELSE FindTripleQuote(s, p + 1)

\* '''(.|\n)*?'''
re_MULTILINE_STRING(s, p) ==
    IF At(s, p) = "'" /\ At(s, p + 1) = "'" /\ At(s, p + 2) = "'"
    THEN LET q == FindTripleQuote(s, p + 3)
         IN  IF q >= 0 THEN q + 3 - p ELSE 0
    ELSE 0

\* '[^']*'
re_STRING(s, p) ==
    IF At(s, p) = "'"
    THEN LET n == SpanNot(s, p + 1, {"'"})
         IN  IF At(s, p + 1 + n) = "'" THEN n + 2 ELSE 0
    ELSE 0

\* [0-9]+
re_INT(s, p) == Span(s, p, Digit)

\* \n
re_EOL(s, p) == IF At(s, p) = "\n" THEN 1 ELSE 0

\* \\[ \t]*\n
re_EOL_CONTINUE(s, p) ==
    IF At(s, p) = "\\"
    THEN LET n == Span(s, p + 1, {" ", "\t"})
         IN  IF At(s, p + 1 + n) = "\n" THEN n + 2 ELSE 0
    ELSE 0

\* \#.*?(?=\n)
re_ignore_COMMENT(s, p) ==
    IF At(s, p) = "#"
    THEN LET n == SpanNot(s, p + 1, {"\n"})
         IN  IF At(s, p + 1 + n) = "\n" THEN n + 1 ELSE 0
    ELSE 0

\* The rules given as strings: a literal text each.
Literal(s, p, lit) ==
    IF \A i \in 1..Len(lit) : At(s, p + i - 1) = lit[i] THEN Len(lit) ELSE 0

t_ASSIGN == <<"=">>
t_EQUALS == <<"=", "=">>
t_NEQUALS == <<"!", "=">>
t_LPAREN == <<"(">>
t_RPAREN == <<")">>
t_LBRACKET == <<"[">>
t_RBRACKET == <<"]">>
t_COMMA == <<",">>
t_DOT == <<".">>
t_COLON == <<":">>

\* The master regular expression tries the function rules in the order of
\* their definition, then the string rules by decreasing length of their
\* regular expression: the comment, !=, the two-character expressions, then
\* the one-character ones.
lexre ==
    <<"ATOM", "MULTILINE_STRING", "STRING", "INT", "EOL", "EOL_CONTINUE",
      "ignore_COMMENT", "NEQUALS", "EQUALS", "LPAREN", "RPAREN", "LBRACKET",
      "RBRACKET", "DOT", "ASSIGN", "COMMA", "COLON">>

re_match(rule, s, p) ==
    CASE rule = "ATOM" -> re_ATOM(s, p)
      [] rule = "MULTILINE_STRING" -> re_MULTILINE_STRING(s, p)
      [] rule = "STRING" -> re_STRING(s, p)
      [] rule = "INT" -> re_INT(s, p)
      [] rule = "EOL" -> re_EOL(s, p)
      [] rule = "EOL_CONTINUE" -> re_EOL_CONTINUE(s, p)
      [] rule = "ignore_COMMENT" -> re_ignore_COMMENT(s, p)
      [] rule = "NEQUALS" -> Literal(s, p, t_NEQUALS)
      [] rule = "EQUALS" -> Literal(s, p, t_EQUALS)
      [] rule = "LPAREN" -> Literal(s, p, t_LPAREN)
      [] rule = "RPAREN" -> Literal(s, p, t_RPAREN)
      [] rule = "LBRACKET" -> Literal(s, p, t_LBRACKET)
      [] rule = "RBRACKET" -> Literal(s, p, t_RBRACKET)
      [] rule = "DOT" -> Literal(s, p, t_DOT)
      [] rule = "ASSIGN" -> Literal(s, p, t_ASSIGN)
      [] rule = "COMMA" -> Literal(s, p, t_COMMA)
      [] rule = "COLON" -> Literal(s, p, t_COLON)

\* The first rule of lexre that matches at p (0: none does).
FirstMatch(s, p) ==
    LET hits == {i \in 1..Len(lexre) : re_match(lexre[i], s, p) > 0}
    IN  IF hits = {} THEN 0 ELSE CHOOSE i \in hits : \A j \in hits : i <= j

\* A lexer object as lex.lex() makes it.
NewLexer == [lexdata |-> <<>>, lexpos |-> 0, lineno |-> 1]

\* lexer.input(s): the line counter is not reset.
lexer_input(lx, s) == [lx EXCEPT !.lexdata = s, !.lexpos = 0]

\* The rule functions: the token (with its value converted) and the line
\* counter after the rule ran.  tok is the token as the lexer hands it to the
\* rule: its value the matched text, its lineno the line counter at the match.
t_ATOM(tok, lineno) ==
    [tok |-> [tok EXCEPT !.type = reserved(tok.value)], lineno |-> lineno]

\* A rule that strips the quotes and leaves the line counter as it was.
t_MULTILINE_STRING_uncounted(tok, lineno) ==
    [tok |-> [tok EXCEPT !.value = SubSeq(tok.value, 4, Len(tok.value) - 3)],
     lineno |-> lineno]

t_MULTILINE_STRING(tok, lineno) ==
    LET value == SubSeq(tok.value, 4, Len(tok.value) - 3)
    IN  [tok |-> [tok EXCEPT !.value = value],
         lineno |-> lineno + CountNewlines(value)]

t_STRING(tok, lineno) ==
    [tok |-> [tok EXCEPT !.value = SubSeq(tok.value, 2, Len(tok.value) - 1)],
     lineno |-> lineno]

t_INT(tok, lineno) ==
    [tok |-> [tok EXCEPT !.value = ParseInt(tok.value)], lineno |-> lineno]

t_EOL(tok, lineno) == [tok |-> tok, lineno |-> lineno + 1]

\* Returns no token: the lexer goes on to the next match.
t_EOL_CONTINUE(tok, lineno) ==
    [tok |-> [tok EXCEPT !.type = "skip"], lineno |-> lineno + 1]

\* t_error raises ParserException("Illegal character '%s'." % t.value[0], t.lineno)
t_error(tok) ==
    [kind |-> "ParserException", msg |-> "Illegal character",
     arg |-> <<tok.value[1]>>, lineno |-> tok.lineno]

RunRule(rule, tok, lineno) ==
    CASE rule = "ATOM" -> t_ATOM(tok, lineno)
      [] rule = "MULTILINE_STRING" -> t_MULTILINE_STRING(tok, lineno)
      [] rule = "STRING" -> t_STRING(tok, lineno)
      [] rule = "INT" -> t_INT(tok, lineno)
      [] rule = "EOL" -> t_EOL(tok, lineno)
      [] rule = "EOL_CONTINUE" -> t_EOL_CONTINUE(tok, lineno)
      [] rule = "ignore_COMMENT" -> [tok |-> [tok EXCEPT !.type = "skip"], lineno |-> lineno]
      [] OTHER -> [tok |-> tok, lineno |-> lineno]

\* lexer.token(): the next token of the lexer's text and the lexer after it.
\* At the end of the text the type is "$end" (PLY returns None and the parser
\* makes the $end symbol); for a character no rule matches the type is
\* "error", as in the token PLY hands to t_error.
RECURSIVE lexer_token(_)
lexer_token(lx) ==
    LET s == lx.lexdata
        p == lx.lexpos
    IN  IF p >= Len(s)
        THEN [tok |-> [type |-> "$end", value |-> <<>>, lineno |-> 0, lexpos |-> p],
              lexer |-> lx]
        ELSE IF s[p + 1] \in t_ignore
        THEN lexer_token([lx EXCEPT !.lexpos = p + 1])
        ELSE LET i == FirstMatch(s, p)
             IN  IF i = 0
                 THEN [tok |-> [type |-> "error", value |-> Slice(s, p, Len(s)),
                                lineno |-> lx.lineno, lexpos |-> p],
                       lexer |-> lx]
                 ELSE LET n == re_match(lexre[i], s, p)
                          raw == [type |-> lexre[i], value |-> Slice(s, p, p + n),
                                  lineno |-> lx.lineno, lexpos |-> p]
                          r == RunRule(lexre[i], raw, lx.lineno)
                          after == [lx EXCEPT !.lexpos = p + n, !.lineno = r.lineno]
                      IN  IF r.tok.type = "skip"
                          THEN lexer_token(after)
                          ELSE [tok |-> r.tok, lexer |-> after]

(***************************************************************************)
(* AST nodes (module nodes: not under src/, modelled after the data model  *)
(* of the specification, section 3 and 4.3)                                *)
(***************************************************************************)
None == [kind |-> "None"]

CodeBlock(lineno) ==
    [kind |-> "CodeBlock", lineno |-> lineno, statements |-> <<>>]

\* cb.prepend(statement)
CodeBlock_prepend(cb, statement) ==
    [cb EXCEPT !.statements = <<statement>> \o @]

AtomExpression(value, lineno) ==
    [kind |-> "AtomExpression", value |-> value, lineno |-> lineno, lexpos |-> -1]

IntExpression(value, lineno) ==
    [kind |-> "IntExpression", value |-> value, lineno |-> lineno, lexpos |-> -1]

BoolExpression(value, lineno) ==
    [kind |-> "BoolExpression", value |-> value, lineno |-> lineno, lexpos |-> -1]

StringExpression(value, lineno) ==
    [kind |-> "StringExpression", value |-> value, lineno |-> lineno, lexpos |-> -1]

Assignment(target, value, lineno) ==
    [kind |-> "Assignment", target |-> target, value |-> value, lineno |-> lineno]

Comparison(left, op, right, lineno) ==
    [kind |-> "Comparison", left |-> left, op |-> op, right |-> right,
     lineno |-> lineno]

\* The constructor takes no line: the node's line is its left operand's.
AndStatement(left, right) ==
    [kind |-> "AndStatement", left |-> left, right |-> right,
     lineno |-> left.lineno]

OrStatement(left, right) ==
    [kind |-> "OrStatement", left |-> left, right |-> right,
     lineno |-> left.lineno]

FunctionCall(name, args, lineno) ==
    [kind |-> "FunctionCall", name |-> name, args |-> args, lineno |-> lineno]

MethodCall(receiver, name, args, lineno) ==
    [kind |-> "MethodCall", receiver |-> receiver, name |-> name, args |-> args,
     lineno |-> lineno]

IfStatement(condition, thenBlock, elseBlock, lineno) ==
    [kind |-> "IfStatement", condition |-> condition, thenBlock |-> thenBlock,
     elseBlock |-> elseBlock, lineno |-> lineno, lexpos |-> -1]

ArrayStatement(elements, lineno) ==
    [kind |-> "ArrayStatement", elements |-> elements, lineno |-> lineno,
     lexpos |-> -1]

Arguments(lineno) ==
    [kind |-> "Arguments", lineno |-> lineno, positional |-> <<>>,
     keyword |-> <<>>]

\* args.prepend(statement)
Arguments_prepend(args, statement) ==
    [args EXCEPT !.positional = <<statement>> \o @]

\* The string a keyword name stands for.
KeywordName(name) ==
    CASE name.kind = "IntExpression" -> IntToStr(name.value)
      [] name.kind = "BoolExpression" ->
           IF name.value THEN <<"T", "r", "u", "e">> ELSE <<"F", "a", "l", "s", "e">>
      [] OTHER -> name.value

\* args.set_kwarg(name, value): a mapping from the name to the value, the last
\* write for a name winning.  The mapping is a sequence of bindings in the
\* order the names were first written.
set_kwarg(args, name, value) ==
    LET key == KeywordName(name)
        old == {i \in 1..Len(args.keyword) : args.keyword[i].key = key}
    IN  IF old = {}
        THEN [args EXCEPT !.keyword = Append(@, [key |-> key, value |-> value])]
        ELSE [args EXCEPT !.keyword =
                 [i \in 1..Len(@) |-> IF i \in old THEN [key |-> key, value |-> value]
                                               ELSE @[i]]]

\* nodes.statement_from_expression(expr): the data model has no separate
\* entity for a literal used as a statement.
statement_from_expression(expr) == expr

(***************************************************************************)
(* Grammar rules: the semantic actions.  t is the sequence of the symbols  *)
(* of the rule's right-hand side, t[n] the n-th (a record of type, value,  *)
(* lineno, lexpos); the result is the value the rule leaves in t[0].       *)
(* A nonterminal has no lineno attribute, for which t.lineno(n) gives 0.   *)
(***************************************************************************)
\* A rule that puts the statement behind the ones of the tail.
p_codeblock_appending(t) ==
    [t[3].value EXCEPT !.statements = Append(@, t[1].value)]

p_codeblock(t) == CodeBlock_prepend(t[3].value, t[1].value)

p_codeblock_emptyline(t) == t[2].value

p_codeblock_last(t) ==
    CodeBlock_prepend(CodeBlock(t[1].value.lineno), t[1].value)

p_expression_atom(t) ==
    [AtomExpression(t[1].value, t[1].lineno) EXCEPT !.lexpos = t[1].lexpos]

p_expression_int(t) ==
    [IntExpression(t[1].value, t[1].lineno) EXCEPT !.lexpos = t[1].lexpos]

p_expression_bool(t) ==
    IF t[1].value = <<"t", "r", "u", "e">>
    THEN [BoolExpression(TRUE, t[1].lineno) EXCEPT !.lexpos = t[1].lexpos]
    ELSE [BoolExpression(FALSE, t[1].lineno) EXCEPT !.lexpos = t[1].lexpos]

p_expression_string(t) ==
    [StringExpression(t[1].value, t[1].lineno) EXCEPT !.lexpos = t[1].lexpos]

p_expression_multiline_string(t) ==
    [StringExpression(t[1].value, t[1].lineno) EXCEPT !.lexpos = t[1].lexpos]

p_statement_assign(t) ==
    Assignment(t[1].value, t[3].value, t[1].value.lineno)

p_statement_comparison(t) ==
    Comparison(t[1].value, t[2].value, t[3].value, t[1].value.lineno)

\* len(t) of the source counts t[0]: it is Len(t) + 1 here.
p_statement_array(t) ==
    IF Len(t) + 1 = 4
    THEN [ArrayStatement(t[2].value, t[1].lineno) EXCEPT !.lexpos = t[1].lexpos]
    ELSE [ArrayStatement(t[3].value, t[1].lineno) EXCEPT !.lexpos = t[1].lexpos]

p_statement_array2(t) ==
    IF Len(t) + 1 = 5
    THEN [ArrayStatement(t[2].value, t[1].lineno) EXCEPT !.lexpos = t[1].lexpos]
    ELSE [ArrayStatement(t[3].value, t[1].lineno) EXCEPT !.lexpos = t[1].lexpos]

p_statement_func_call(t) ==
    FunctionCall(t[1].value, t[3].value, t[1].value.lineno)

p_statement_method_call(t) ==
    MethodCall(t[1].value, t[3].value, t[5].value, t[1].value.lineno)

p_statement_if(t) ==
    [IfStatement(t[2].value, t[4].value, t[5].value, t[1].lineno)
        EXCEPT !.lexpos = t[1].lexpos]

p_statement_parentheses(t) == t[2].value

p_statement_and(t) == AndStatement(t[1].value, t[3].value)

p_statement_or(t) == OrStatement(t[1].value, t[3].value)

\* return None: t[0] keeps the None the parser put there.
p_empty_else(t) == None

p_else(t) == t[3].value

p_statement_expression(t) == statement_from_expression(t[1].value)

p_args_multiple(t) ==
    LET args == IF Len(t) + 1 = 5 THEN t[4].value ELSE t[3].value
    IN  Arguments_prepend(args, t[1].value)

\* A rule that takes a keyword argument in front of others for a positional
\* one, its name.
p_kwargs_multiple_positional(t) ==
    LET args == IF Len(t) + 1 = 7 THEN t[6].value ELSE t[5].value
    IN  Arguments_prepend(args, t[1].value)

p_kwargs_multiple(t) ==
    LET args == IF Len(t) + 1 = 7 THEN t[6].value ELSE t[5].value
    IN  set_kwarg(args, t[1].value, t[3].value)

p_args_single_pos(t) ==
    Arguments_prepend(Arguments(t[1].value.lineno), t[1].value)

p_args_single_kw(t) ==
    set_kwarg(Arguments(t[1].value.lineno), t[1].value, t[3].value)

\* t.lineno(0): the line of the symbol being built, which has none.
p_args_none(t) == Arguments(0)

\* p_error(t): t is the offending token, or the $end symbol where the source
\* gets None.
p_error(t) ==
    IF t.type = "$end"
    THEN [kind |-> "ParserException", msg |-> "Parser errored out at",
          arg |-> <<"N", "O", "N", "E">>, lineno |-> -1]
    ELSE [kind |-> "ParserException", msg |-> "Parser errored out at",
          arg |-> IF t.type = "INT" THEN IntToStr(t.value) ELSE t.value,
          lineno |-> t.lineno]

callable(name, t) ==
    CASE name = "p_codeblock" -> p_codeblock(t)
      [] name = "p_codeblock_emptyline" -> p_codeblock_emptyline(t)
      [] name = "p_codeblock_last" -> p_codeblock_last(t)
      [] name = "p_expression_atom" -> p_expression_atom(t)
      [] name = "p_expression_int" -> p_expression_int(t)
      [] name = "p_expression_bool" -> p_expression_bool(t)
      [] name = "p_expression_string" -> p_expression_string(t)
      [] name = "p_expression_multiline_string" -> p_expression_multiline_string(t)
      [] name = "p_statement_assign" -> p_statement_assign(t)
      [] name = "p_statement_comparison" -> p_statement_comparison(t)
      [] name = "p_statement_array" -> p_statement_array(t)
      [] name = "p_statement_array2" -> p_statement_array2(t)
      [] name = "p_statement_func_call" -> p_statement_func_call(t)
      [] name = "p_statement_method_call" -> p_statement_method_call(t)
      [] name = "p_statement_if" -> p_statement_if(t)
      [] name = "p_statement_parentheses" -> p_statement_parentheses(t)
      [] name = "p_statement_and" -> p_statement_and(t)
      [] name = "p_statement_or" -> p_statement_or(t)
      [] name = "p_empty_else" -> p_empty_else(t)
      [] name = "p_else" -> p_else(t)
      [] name = "p_statement_expression" -> p_statement_expression(t)
      [] name = "p_args_multiple" -> p_args_multiple(t)
      [] name = "p_kwargs_multiple" -> p_kwargs_multiple(t)
      [] name = "p_args_single_pos" -> p_args_single_pos(t)
      [] name = "p_args_single_kw" -> p_args_single_kw(t)
      [] name = "p_args_none" -> p_args_none(t)

(***************************************************************************)
(* Grammar: the rules of the p_ functions in the order of their lines      *)
(* (rule 0 of the parser is S' -> codeblock), the token names and the      *)
(* precedence table, lowest level first.                                   *)
(***************************************************************************)
tokens ==
    {"LPAREN", "RPAREN", "LBRACKET", "RBRACKET", "ATOM", "COMMENT", "ASSIGN",
     "EQUALS", "NEQUALS", "COMMA", "DOT", "STRING", "MULTILINE_STRING", "INT",
     "EOL_CONTINUE", "EOL", "COLON",
     "TRUE", "FALSE", "IF", "ENDIF", "ELSE", "AND", "OR", "NOT"}

\* Tables other than the source's: comparison left-associative; OR above AND;
\* comparison above the boolean operators.
precedence_comparison_left ==
    << [assoc |-> "left", toks |-> {"COMMA"}],
       [assoc |-> "left", toks |-> {"ASSIGN"}],
       [assoc |-> "left", toks |-> {"EQUALS", "NEQUALS"}],
       [assoc |-> "left", toks |-> {"OR"}],
       [assoc |-> "left", toks |-> {"AND"}],
       [assoc |-> "nonassoc", toks |-> {"COLON"}],
       [assoc |-> "left", toks |-> {"DOT"}] >>

precedence_or_above_and ==
    << [assoc |-> "left", toks |-> {"COMMA"}],
       [assoc |-> "left", toks |-> {"ASSIGN"}],
       [assoc |-> "nonassoc", toks |-> {"EQUALS", "NEQUALS"}],
       [assoc |-> "left", toks |-> {"AND"}],
       [assoc |-> "left", toks |-> {"OR"}],
       [assoc |-> "nonassoc", toks |-> {"COLON"}],
       [assoc |-> "left", toks |-> {"DOT"}] >>

precedence_comparison_above_boolean ==
    << [assoc |-> "left", toks |-> {"COMMA"}],
       [assoc |-> "left", toks |-> {"ASSIGN"}],
       [assoc |-> "left", toks |-> {"OR"}],
       [assoc |-> "left", toks |-> {"AND"}],
       [assoc |-> "nonassoc", toks |-> {"EQUALS", "NEQUALS"}],
       [assoc |-> "nonassoc", toks |-> {"COLON"}],
       [assoc |-> "left", toks |-> {"DOT"}] >>

precedence ==
    << [assoc |-> "left", toks |-> {"COMMA"}],
       [assoc |-> "left", toks |-> {"ASSIGN"}],
       [assoc |-> "nonassoc", toks |-> {"EQUALS", "NEQUALS"}],
       [assoc |-> "left", toks |-> {"OR"}],
       [assoc |-> "left", toks |-> {"AND"}],
       [assoc |-> "nonassoc", toks |-> {"COLON"}],
       [assoc |-> "left", toks |-> {"DOT"}] >>

Productions ==
  <<
    [name |-> "p_codeblock", lhs |-> "codeblock", rhs |-> <<"statement", "EOL", "codeblock">>, line |-> 115],
    [name |-> "p_codeblock_emptyline", lhs |-> "codeblock", rhs |-> <<"EOL", "codeblock">>, line |-> 121],
    [name |-> "p_codeblock_last", lhs |-> "codeblock", rhs |-> <<"statement", "EOL">>, line |-> 125],
    [name |-> "p_expression_atom", lhs |-> "expression", rhs |-> <<"ATOM">>, line |-> 131],
    [name |-> "p_expression_int", lhs |-> "expression", rhs |-> <<"INT">>, line |-> 135],
    [name |-> "p_expression_bool", lhs |-> "expression", rhs |-> <<"TRUE">>, line |-> 139],
    [name |-> "p_expression_bool", lhs |-> "expression", rhs |-> <<"FALSE">>, line |-> 140],
    [name |-> "p_expression_string", lhs |-> "expression", rhs |-> <<"STRING">>, line |-> 147],
    [name |-> "p_expression_multiline_string", lhs |-> "expression", rhs |-> <<"MULTILINE_STRING">>, line |-> 151],
    [name |-> "p_statement_assign", lhs |-> "statement", rhs |-> <<"expression", "ASSIGN", "statement">>, line |-> 155],
    [name |-> "p_statement_comparison", lhs |-> "statement", rhs |-> <<"statement", "EQUALS", "statement">>, line |-> 159],
    [name |-> "p_statement_comparison", lhs |-> "statement", rhs |-> <<"statement", "NEQUALS", "statement">>, line |-> 160],
    [name |-> "p_statement_array", lhs |-> "statement", rhs |-> <<"LBRACKET", "args", "RBRACKET">>, line |-> 164],
    [name |-> "p_statement_array", lhs |-> "statement", rhs |-> <<"LBRACKET", "EOL", "args", "RBRACKET">>, line |-> 165],
    [name |-> "p_statement_array2", lhs |-> "statement", rhs |-> <<"LBRACKET", "args", "EOL", "RBRACKET">>, line |-> 172],
    [name |-> "p_statement_array2", lhs |-> "statement", rhs |-> <<"LBRACKET", "EOL", "args", "EOL", "RBRACKET">>, line |-> 173],
    [name |-> "p_statement_func_call", lhs |-> "statement", rhs |-> <<"expression", "LPAREN", "args", "RPAREN">>, line |-> 180],
    [name |-> "p_statement_method_call", lhs |-> "statement", rhs |-> <<"statement", "DOT", "expression", "LPAREN", "args", "RPAREN">>, line |-> 184],
    [name |-> "p_statement_if", lhs |-> "statement", rhs |-> <<"IF", "statement", "EOL", "codeblock", "elseblock", "ENDIF">>, line |-> 188],
    [name |-> "p_statement_parentheses", lhs |-> "statement", rhs |-> <<"LPAREN", "statement", "RPAREN">>, line |-> 192],
    [name |-> "p_statement_and", lhs |-> "statement", rhs |-> <<"statement", "AND", "statement">>, line |-> 196],
    [name |-> "p_statement_or", lhs |-> "statement", rhs |-> <<"statement", "OR", "statement">>, line |-> 200],
    [name |-> "p_empty_else", lhs |-> "elseblock", rhs |-> <<>>, line |-> 204],
    [name |-> "p_else", lhs |-> "elseblock", rhs |-> <<"ELSE", "EOL", "codeblock">>, line |-> 208],
    [name |-> "p_statement_expression", lhs |-> "statement", rhs |-> <<"expression">>, line |-> 212],
    [name |-> "p_args_multiple", lhs |-> "args", rhs |-> <<"statement", "COMMA", "args">>, line |-> 217],
    [name |-> "p_args_multiple", lhs |-> "args", rhs |-> <<"statement", "COMMA", "EOL", "args">>, line |-> 218],
    [name |-> "p_args_multiple", lhs |-> "args", rhs |-> <<"statement", "EOL", "COMMA", "args">>, line |-> 219],
    [name |-> "p_kwargs_multiple", lhs |-> "args", rhs |-> <<"expression", "COLON", "statement", "COMMA", "args">>, line |-> 228],
    [name |-> "p_kwargs_multiple", lhs |-> "args", rhs |-> <<"expression", "COLON", "statement", "COMMA", "EOL", "args">>, line |-> 229],
    [name |-> "p_kwargs_multiple", lhs |-> "args", rhs |-> <<"expression", "COLON", "statement", "EOL", "COMMA", "args">>, line |-> 230],
    [name |-> "p_args_single_pos", lhs |-> "args", rhs |-> <<"statement">>, line |-> 239],
    [name |-> "p_args_single_kw", lhs |-> "args", rhs |-> <<"expression", "COLON", "statement">>, line |-> 245],
    [name |-> "p_args_none", lhs |-> "args", rhs |-> <<>>, line |-> 251]
  >>

lr_candidates ==
  <<
    (*  0 *) ("EOL" :> <<3>>) @@ ("LBRACKET" :> <<5>>) @@ ("IF" :> <<7>>) @@ ("LPAREN" :> <<6>>) @@
               ("ATOM" :> <<8>>) @@ ("INT" :> <<9>>) @@ ("TRUE" :> <<10>>) @@ ("FALSE" :> <<11>>) @@
               ("STRING" :> <<12>>) @@ ("MULTILINE_STRING" :> <<13>>),
    (*  1 *) ("$end" :> <<0>>),
    (*  2 *) ("EOL" :> <<14>>) @@ ("EQUALS" :> <<15>>) @@ ("NEQUALS" :> <<16>>) @@ ("DOT" :> <<17>>) @@
               ("AND" :> <<18>>) @@ ("OR" :> <<19>>),
    (*  3 *) ("EOL" :> <<3>>) @@ ("LBRACKET" :> <<5>>) @@ ("IF" :> <<7>>) @@ ("LPAREN" :> <<6>>) @@
               ("ATOM" :> <<8>>) @@ ("INT" :> <<9>>) @@ ("TRUE" :> <<10>>) @@ ("FALSE" :> <<11>>) @@
               ("STRING" :> <<12>>) @@ ("MULTILINE_STRING" :> <<13>>),
    (*  4 *) ("ASSIGN" :> <<21>>) @@ ("LPAREN" :> <<22>>) @@ ("AND" :> <<-25>>) @@
               ("COMMA" :> <<-25>>) @@ ("DOT" :> <<-25>>) @@ ("EOL" :> <<-25>>) @@
               ("EQUALS" :> <<-25>>) @@ ("NEQUALS" :> <<-25>>) @@ ("OR" :> <<-25>>) @@
               ("RBRACKET" :> <<-25>>) @@ ("RPAREN" :> <<-25>>),
    (*  5 *) ("EOL" :> <<24, -34>>) @@ ("RBRACKET" :> <<-34>>) @@ ("LBRACKET" :> <<5>>) @@
               ("IF" :> <<7>>) @@ ("LPAREN" :> <<6>>) @@ ("ATOM" :> <<8>>) @@ ("INT" :> <<9>>) @@
               ("TRUE" :> <<10>>) @@ ("FALSE" :> <<11>>) @@ ("STRING" :> <<12>>) @@
               ("MULTILINE_STRING" :> <<13>>),
    (*  6 *) ("LBRACKET" :> <<5>>) @@ ("IF" :> <<7>>) @@ ("LPAREN" :> <<6>>) @@ ("ATOM" :> <<8>>) @@
               ("INT" :> <<9>>) @@ ("TRUE" :> <<10>>) @@ ("FALSE" :> <<11>>) @@ ("STRING" :> <<12>>) @@
               ("MULTILINE_STRING" :> <<13>>),
    (*  7 *) ("LBRACKET" :> <<5>>) @@ ("IF" :> <<7>>) @@ ("LPAREN" :> <<6>>) @@ ("ATOM" :> <<8>>) @@
               ("INT" :> <<9>>) @@ ("TRUE" :> <<10>>) @@ ("FALSE" :> <<11>>) @@ ("STRING" :> <<12>>) @@
               ("MULTILINE_STRING" :> <<13>>),
    (*  8 *) ("AND" :> <<-4>>) @@ ("ASSIGN" :> <<-4>>) @@ ("COLON" :> <<-4>>) @@ ("COMMA" :> <<-4>>) @@
               ("DOT" :> <<-4>>) @@ ("EOL" :> <<-4>>) @@ ("EQUALS" :> <<-4>>) @@
               ("LPAREN" :> <<-4>>) @@ ("NEQUALS" :> <<-4>>) @@ ("OR" :> <<-4>>) @@
               ("RBRACKET" :> <<-4>>) @@ ("RPAREN" :> <<-4>>),
    (*  9 *) ("AND" :> <<-5>>) @@ ("ASSIGN" :> <<-5>>) @@ ("COLON" :> <<-5>>) @@ ("COMMA" :> <<-5>>) @@
               ("DOT" :> <<-5>>) @@ ("EOL" :> <<-5>>) @@ ("EQUALS" :> <<-5>>) @@
               ("LPAREN" :> <<-5>>) @@ ("NEQUALS" :> <<-5>>) @@ ("OR" :> <<-5>>) @@
               ("RBRACKET" :> <<-5>>) @@ ("RPAREN" :> <<-5>>),
    (* 10 *) ("AND" :> <<-6>>) @@ ("ASSIGN" :> <<-6>>) @@ ("COLON" :> <<-6>>) @@ ("COMMA" :> <<-6>>) @@
               ("DOT" :> <<-6>>) @@ ("EOL" :> <<-6>>) @@ ("EQUALS" :> <<-6>>) @@
               ("LPAREN" :> <<-6>>) @@ ("NEQUALS" :> <<-6>>) @@ ("OR" :> <<-6>>) @@
               ("RBRACKET" :> <<-6>>) @@ ("RPAREN" :> <<-6>>),
    (* 11 *) ("AND" :> <<-7>>) @@ ("ASSIGN" :> <<-7>>) @@ ("COLON" :> <<-7>>) @@ ("COMMA" :> <<-7>>) @@
               ("DOT" :> <<-7>>) @@ ("EOL" :> <<-7>>) @@ ("EQUALS" :> <<-7>>) @@
               ("LPAREN" :> <<-7>>) @@ ("NEQUALS" :> <<-7>>) @@ ("OR" :> <<-7>>) @@
               ("RBRACKET" :> <<-7>>) @@ ("RPAREN" :> <<-7>>),
    (* 12 *) ("AND" :> <<-8>>) @@ ("ASSIGN" :> <<-8>>) @@ ("COLON" :> <<-8>>) @@ ("COMMA" :> <<-8>>) @@
               ("DOT" :> <<-8>>) @@ ("EOL" :> <<-8>>) @@ ("EQUALS" :> <<-8>>) @@
               ("LPAREN" :> <<-8>>) @@ ("NEQUALS" :> <<-8>>) @@ ("OR" :> <<-8>>) @@
               ("RBRACKET" :> <<-8>>) @@ ("RPAREN" :> <<-8>>),
    (* 13 *) ("AND" :> <<-9>>) @@ ("ASSIGN" :> <<-9>>) @@ ("COLON" :> <<-9>>) @@ ("COMMA" :> <<-9>>) @@
               ("DOT" :> <<-9>>) @@ ("EOL" :> <<-9>>) @@ ("EQUALS" :> <<-9>>) @@
               ("LPAREN" :> <<-9>>) @@ ("NEQUALS" :> <<-9>>) @@ ("OR" :> <<-9>>) @@
               ("RBRACKET" :> <<-9>>) @@ ("RPAREN" :> <<-9>>),
    (* 14 *) ("$end" :> <<-3>>) @@ ("ELSE" :> <<-3>>) @@ ("ENDIF" :> <<-3>>) @@ ("EOL" :> <<3>>) @@
               ("LBRACKET" :> <<5>>) @@ ("IF" :> <<7>>) @@ ("LPAREN" :> <<6>>) @@ ("ATOM" :> <<8>>) @@
               ("INT" :> <<9>>) @@ ("TRUE" :> <<10>>) @@ ("FALSE" :> <<11>>) @@ ("STRING" :> <<12>>) @@
               ("MULTILINE_STRING" :> <<13>>),
    (* 15 *) ("LBRACKET" :> <<5>>) @@ ("IF" :> <<7>>) @@ ("LPAREN" :> <<6>>) @@ ("ATOM" :> <<8>>) @@
               ("INT" :> <<9>>) @@ ("TRUE" :> <<10>>) @@ ("FALSE" :> <<11>>) @@ ("STRING" :> <<12>>) @@
               ("MULTILINE_STRING" :> <<13>>),
    (* 16 *) ("LBRACKET" :> <<5>>) @@ ("IF" :> <<7>>) @@ ("LPAREN" :> <<6>>) @@ ("ATOM" :> <<8>>) @@
               ("INT" :> <<9>>) @@ ("TRUE" :> <<10>>) @@ ("FALSE" :> <<11>>) @@ ("STRING" :> <<12>>) @@
               ("MULTILINE_STRING" :> <<13>>),
    (* 17 *) ("ATOM" :> <<8>>) @@ ("INT" :> <<9>>) @@ ("TRUE" :> <<10>>) @@ ("FALSE" :> <<11>>) @@
               ("STRING" :> <<12>>) @@ ("MULTILINE_STRING" :> <<13>>),
    (* 18 *) ("LBRACKET" :> <<5>>) @@ ("IF" :> <<7>>) @@ ("LPAREN" :> <<6>>) @@ ("ATOM" :> <<8>>) @@
               ("INT" :> <<9>>) @@ ("TRUE" :> <<10>>) @@ ("FALSE" :> <<11>>) @@ ("STRING" :> <<12>>) @@
               ("MULTILINE_STRING" :> <<13>>),
    (* 19 *) ("LBRACKET" :> <<5>>) @@ ("IF" :> <<7>>) @@ ("LPAREN" :> <<6>>) @@ ("ATOM" :> <<8>>) @@
               ("INT" :> <<9>>) @@ ("TRUE" :> <<10>>) @@ ("FALSE" :> <<11>>) @@ ("STRING" :> <<12>>) @@
               ("MULTILINE_STRING" :> <<13>>),
    (* 20 *) ("$end" :> <<-2>>) @@ ("ELSE" :> <<-2>>) @@ ("ENDIF" :> <<-2>>),
    (* 21 *) ("LBRACKET" :> <<5>>) @@ ("IF" :> <<7>>) @@ ("LPAREN" :> <<6>>) @@ ("ATOM" :> <<8>>) @@
               ("INT" :> <<9>>) @@ ("TRUE" :> <<10>>) @@ ("FALSE" :> <<11>>) @@ ("STRING" :> <<12>>) @@
               ("MULTILINE_STRING" :> <<13>>),
    (* 22 *) ("RPAREN" :> <<-34>>) @@ ("LBRACKET" :> <<5>>) @@ ("IF" :> <<7>>) @@
               ("LPAREN" :> <<6>>) @@ ("ATOM" :> <<8>>) @@ ("INT" :> <<9>>) @@ ("TRUE" :> <<10>>) @@
               ("FALSE" :> <<11>>) @@ ("STRING" :> <<12>>) @@ ("MULTILINE_STRING" :> <<13>>),
    (* 23 *) ("RBRACKET" :> <<37>>) @@ ("EOL" :> <<38>>),
    (* 24 *) ("EOL" :> <<-34>>) @@ ("RBRACKET" :> <<-34>>) @@ ("LBRACKET" :> <<5>>) @@
               ("IF" :> <<7>>) @@ ("LPAREN" :> <<6>>) @@ ("ATOM" :> <<8>>) @@ ("INT" :> <<9>>) @@
               ("TRUE" :> <<10>>) @@ ("FALSE" :> <<11>>) @@ ("STRING" :> <<12>>) @@
               ("MULTILINE_STRING" :> <<13>>),
    (* 25 *) ("COMMA" :> <<40>>) @@ ("EOL" :> <<41, -32>>) @@ ("RBRACKET" :> <<-32>>) @@
               ("RPAREN" :> <<-32>>) @@ ("EQUALS" :> <<15>>) @@ ("NEQUALS" :> <<16>>) @@
               ("DOT" :> <<17>>) @@ ("AND" :> <<18>>) @@ ("OR" :> <<19>>),
    (* 26 *) ("COLON" :> <<42>>) @@ ("ASSIGN" :> <<21>>) @@ ("LPAREN" :> <<22>>) @@
               ("AND" :> <<-25>>) @@ ("COMMA" :> <<-25>>) @@ ("DOT" :> <<-25>>) @@
               ("EOL" :> <<-25>>) @@ ("EQUALS" :> <<-25>>) @@ ("NEQUALS" :> <<-25>>) @@
               ("OR" :> <<-25>>) @@ ("RBRACKET" :> <<-25>>) @@ ("RPAREN" :> <<-25>>),
    (* 27 *) ("RPAREN" :> <<43>>) @@ ("EQUALS" :> <<15>>) @@ ("NEQUALS" :> <<16>>) @@
               ("DOT" :> <<17>>) @@ ("AND" :> <<18>>) @@ ("OR" :> <<19>>),
    (* 28 *) ("EOL" :> <<44>>) @@ ("EQUALS" :> <<15>>) @@ ("NEQUALS" :> <<16>>) @@ ("DOT" :> <<17>>) @@
               ("AND" :> <<18>>) @@ ("OR" :> <<19>>),
    (* 29 *) ("$end" :> <<-1>>) @@ ("ELSE" :> <<-1>>) @@ ("ENDIF" :> <<-1>>),
    (* 30 *) ("AND" :> <<-11, 18>>) @@ ("COMMA" :> <<-11>>) @@ ("DOT" :> <<-11, 17>>) @@
               ("EOL" :> <<-11>>) @@ ("EQUALS" :> <<-11, 15>>) @@ ("NEQUALS" :> <<-11, 16>>) @@
               ("OR" :> <<-11, 19>>) @@ ("RBRACKET" :> <<-11>>) @@ ("RPAREN" :> <<-11>>),
    (* 31 *) ("AND" :> <<-12, 18>>) @@ ("COMMA" :> <<-12>>) @@ ("DOT" :> <<-12, 17>>) @@
               ("EOL" :> <<-12>>) @@ ("EQUALS" :> <<-12, 15>>) @@ ("NEQUALS" :> <<-12, 16>>) @@
               ("OR" :> <<-12, 19>>) @@ ("RBRACKET" :> <<-12>>) @@ ("RPAREN" :> <<-12>>),
    (* 32 *) ("LPAREN" :> <<45>>),
    (* 33 *) ("AND" :> <<-21, 18>>) @@ ("COMMA" :> <<-21>>) @@ ("DOT" :> <<-21, 17>>) @@
               ("EOL" :> <<-21>>) @@ ("EQUALS" :> <<-21, 15>>) @@ ("NEQUALS" :> <<-21, 16>>) @@
               ("OR" :> <<-21, 19>>) @@ ("RBRACKET" :> <<-21>>) @@ ("RPAREN" :> <<-21>>),
    (* 34 *) ("AND" :> <<-22, 18>>) @@ ("COMMA" :> <<-22>>) @@ ("DOT" :> <<-22, 17>>) @@
               ("EOL" :> <<-22>>) @@ ("EQUALS" :> <<-22, 15>>) @@ ("NEQUALS" :> <<-22, 16>>) @@
               ("OR" :> <<-22, 19>>) @@ ("RBRACKET" :> <<-22>>) @@ ("RPAREN" :> <<-22>>),
    (* 35 *) ("AND" :> <<-10, 18>>) @@ ("COMMA" :> <<-10>>) @@ ("DOT" :> <<-10, 17>>) @@
               ("EOL" :> <<-10>>) @@ ("EQUALS" :> <<-10, 15>>) @@ ("NEQUALS" :> <<-10, 16>>) @@
               ("OR" :> <<-10, 19>>) @@ ("RBRACKET" :> <<-10>>) @@ ("RPAREN" :> <<-10>>),
    (* 36 *) ("RPAREN" :> <<46>>),
    (* 37 *) ("AND" :> <<-13>>) @@ ("COMMA" :> <<-13>>) @@ ("DOT" :> <<-13>>) @@ ("EOL" :> <<-13>>) @@
               ("EQUALS" :> <<-13>>) @@ ("NEQUALS" :> <<-13>>) @@ ("OR" :> <<-13>>) @@
               ("RBRACKET" :> <<-13>>) @@ ("RPAREN" :> <<-13>>),
    (* 38 *) ("RBRACKET" :> <<47>>),
    (* 39 *) ("RBRACKET" :> <<49>>) @@ ("EOL" :> <<48>>),
    (* 40 *) ("EOL" :> <<51, -34>>) @@ ("RBRACKET" :> <<-34>>) @@ ("RPAREN" :> <<-34>>) @@
               ("LBRACKET" :> <<5>>) @@ ("IF" :> <<7>>) @@ ("LPAREN" :> <<6>>) @@ ("ATOM" :> <<8>>) @@
               ("INT" :> <<9>>) @@ ("TRUE" :> <<10>>) @@ ("FALSE" :> <<11>>) @@ ("STRING" :> <<12>>) @@
               ("MULTILINE_STRING" :> <<13>>),
    (* 41 *) ("COMMA" :> <<52>>),
    (* 42 *) ("LBRACKET" :> <<5>>) @@ ("IF" :> <<7>>) @@ ("LPAREN" :> <<6>>) @@ ("ATOM" :> <<8>>) @@
               ("INT" :> <<9>>) @@ ("TRUE" :> <<10>>) @@ ("FALSE" :> <<11>>) @@ ("STRING" :> <<12>>) @@
               ("MULTILINE_STRING" :> <<13>>),
    (* 43 *) ("AND" :> <<-20>>) @@ ("COMMA" :> <<-20>>) @@ ("DOT" :> <<-20>>) @@ ("EOL" :> <<-20>>) @@
               ("EQUALS" :> <<-20>>) @@ ("NEQUALS" :> <<-20>>) @@ ("OR" :> <<-20>>) @@
               ("RBRACKET" :> <<-20>>) @@ ("RPAREN" :> <<-20>>),
    (* 44 *) ("EOL" :> <<3>>) @@ ("LBRACKET" :> <<5>>) @@ ("IF" :> <<7>>) @@ ("LPAREN" :> <<6>>) @@
               ("ATOM" :> <<8>>) @@ ("INT" :> <<9>>) @@ ("TRUE" :> <<10>>) @@ ("FALSE" :> <<11>>) @@
               ("STRING" :> <<12>>) @@ ("MULTILINE_STRING" :> <<13>>),
    (* 45 *) ("RPAREN" :> <<-34>>) @@ ("LBRACKET" :> <<5>>) @@ ("IF" :> <<7>>) @@
               ("LPAREN" :> <<6>>) @@ ("ATOM" :> <<8>>) @@ ("INT" :> <<9>>) @@ ("TRUE" :> <<10>>) @@
               ("FALSE" :> <<11>>) @@ ("STRING" :> <<12>>) @@ ("MULTILINE_STRING" :> <<13>>),
    (* 46 *) ("AND" :> <<-17>>) @@ ("COMMA" :> <<-17>>) @@ ("DOT" :> <<-17>>) @@ ("EOL" :> <<-17>>) @@
               ("EQUALS" :> <<-17>>) @@ ("NEQUALS" :> <<-17>>) @@ ("OR" :> <<-17>>) @@
               ("RBRACKET" :> <<-17>>) @@ ("RPAREN" :> <<-17>>),
    (* 47 *) ("AND" :> <<-15>>) @@ ("COMMA" :> <<-15>>) @@ ("DOT" :> <<-15>>) @@ ("EOL" :> <<-15>>) @@
               ("EQUALS" :> <<-15>>) @@ ("NEQUALS" :> <<-15>>) @@ ("OR" :> <<-15>>) @@
               ("RBRACKET" :> <<-15>>) @@ ("RPAREN" :> <<-15>>),
    (* 48 *) ("RBRACKET" :> <<56>>),
    (* 49 *) ("AND" :> <<-14>>) @@ ("COMMA" :> <<-14>>) @@ ("DOT" :> <<-14>>) @@ ("EOL" :> <<-14>>) @@
               ("EQUALS" :> <<-14>>) @@ ("NEQUALS" :> <<-14>>) @@ ("OR" :> <<-14>>) @@
               ("RBRACKET" :> <<-14>>) @@ ("RPAREN" :> <<-14>>),
    (* 50 *) ("EOL" :> <<-26>>) @@ ("RBRACKET" :> <<-26>>) @@ ("RPAREN" :> <<-26>>),
    (* 51 *) ("EOL" :> <<-34>>) @@ ("RBRACKET" :> <<-34>>) @@ ("RPAREN" :> <<-34>>) @@
               ("LBRACKET" :> <<5>>) @@ ("IF" :> <<7>>) @@ ("LPAREN" :> <<6>>) @@ ("ATOM" :> <<8>>) @@
               ("INT" :> <<9>>) @@ ("TRUE" :> <<10>>) @@ ("FALSE" :> <<11>>) @@ ("STRING" :> <<12>>) @@
               ("MULTILINE_STRING" :> <<13>>),
    (* 52 *) ("EOL" :> <<-34>>) @@ ("RBRACKET" :> <<-34>>) @@ ("RPAREN" :> <<-34>>) @@
               ("LBRACKET" :> <<5>>) @@ ("IF" :> <<7>>) @@ ("LPAREN" :> <<6>>) @@ ("ATOM" :> <<8>>) @@
               ("INT" :> <<9>>) @@ ("TRUE" :> <<10>>) @@ ("FALSE" :> <<11>>) @@ ("STRING" :> <<12>>) @@
               ("MULTILINE_STRING" :> <<13>>),
    (* 53 *) ("COMMA" :> <<59>>) @@ ("EOL" :> <<60, -33>>) @@ ("RBRACKET" :> <<-33>>) @@
               ("RPAREN" :> <<-33>>) @@ ("EQUALS" :> <<15>>) @@ ("NEQUALS" :> <<16>>) @@
               ("DOT" :> <<17>>) @@ ("AND" :> <<18>>) @@ ("OR" :> <<19>>),
    (* 54 *) ("ENDIF" :> <<-23>>) @@ ("ELSE" :> <<62>>),
    (* 55 *) ("RPAREN" :> <<63>>),
    (* 56 *) ("AND" :> <<-16>>) @@ ("COMMA" :> <<-16>>) @@ ("DOT" :> <<-16>>) @@ ("EOL" :> <<-16>>) @@
               ("EQUALS" :> <<-16>>) @@ ("NEQUALS" :> <<-16>>) @@ ("OR" :> <<-16>>) @@
               ("RBRACKET" :> <<-16>>) @@ ("RPAREN" :> <<-16>>),
    (* 57 *) ("EOL" :> <<-27>>) @@ ("RBRACKET" :> <<-27>>) @@ ("RPAREN" :> <<-27>>),
    (* 58 *) ("EOL" :> <<-28>>) @@ ("RBRACKET" :> <<-28>>) @@ ("RPAREN" :> <<-28>>),
    (* 59 *) ("EOL" :> <<65, -34>>) @@ ("RBRACKET" :> <<-34>>) @@ ("RPAREN" :> <<-34>>) @@
               ("LBRACKET" :> <<5>>) @@ ("IF" :> <<7>>) @@ ("LPAREN" :> <<6>>) @@ ("ATOM" :> <<8>>) @@
               ("INT" :> <<9>>) @@ ("TRUE" :> <<10>>) @@ ("FALSE" :> <<11>>) @@ ("STRING" :> <<12>>) @@
               ("MULTILINE_STRING" :> <<13>>),
    (* 60 *) ("COMMA" :> <<66>>),
    (* 61 *) ("ENDIF" :> <<67>>),
    (* 62 *) ("EOL" :> <<68>>),
    (* 63 *) ("AND" :> <<-18>>) @@ ("COMMA" :> <<-18>>) @@ ("DOT" :> <<-18>>) @@ ("EOL" :> <<-18>>) @@
               ("EQUALS" :> <<-18>>) @@ ("NEQUALS" :> <<-18>>) @@ ("OR" :> <<-18>>) @@
               ("RBRACKET" :> <<-18>>) @@ ("RPAREN" :> <<-18>>),
    (* 64 *) ("EOL" :> <<-29>>) @@ ("RBRACKET" :> <<-29>>) @@ ("RPAREN" :> <<-29>>),
    (* 65 *) ("EOL" :> <<-34>>) @@ ("RBRACKET" :> <<-34>>) @@ ("RPAREN" :> <<-34>>) @@
               ("LBRACKET" :> <<5>>) @@ ("IF" :> <<7>>) @@ ("LPAREN" :> <<6>>) @@ ("ATOM" :> <<8>>) @@
               ("INT" :> <<9>>) @@ ("TRUE" :> <<10>>) @@ ("FALSE" :> <<11>>) @@ ("STRING" :> <<12>>) @@
               ("MULTILINE_STRING" :> <<13>>),
    (* 66 *) ("EOL" :> <<-34>>) @@ ("RBRACKET" :> <<-34>>) @@ ("RPAREN" :> <<-34>>) @@
               ("LBRACKET" :> <<5>>) @@ ("IF" :> <<7>>) @@ ("LPAREN" :> <<6>>) @@ ("ATOM" :> <<8>>) @@
               ("INT" :> <<9>>) @@ ("TRUE" :> <<10>>) @@ ("FALSE" :> <<11>>) @@ ("STRING" :> <<12>>) @@
               ("MULTILINE_STRING" :> <<13>>),
    (* 67 *) ("AND" :> <<-19>>) @@ ("COMMA" :> <<-19>>) @@ ("DOT" :> <<-19>>) @@ ("EOL" :> <<-19>>) @@
               ("EQUALS" :> <<-19>>) @@ ("NEQUALS" :> <<-19>>) @@ ("OR" :> <<-19>>) @@
               ("RBRACKET" :> <<-19>>) @@ ("RPAREN" :> <<-19>>),
    (* 68 *) ("EOL" :> <<3>>) @@ ("LBRACKET" :> <<5>>) @@ ("IF" :> <<7>>) @@ ("LPAREN" :> <<6>>) @@
               ("ATOM" :> <<8>>) @@ ("INT" :> <<9>>) @@ ("TRUE" :> <<10>>) @@ ("FALSE" :> <<11>>) @@
               ("STRING" :> <<12>>) @@ ("MULTILINE_STRING" :> <<13>>),
    (* 69 *) ("EOL" :> <<-30>>) @@ ("RBRACKET" :> <<-30>>) @@ ("RPAREN" :> <<-30>>),
    (* 70 *) ("EOL" :> <<-31>>) @@ ("RBRACKET" :> <<-31>>) @@ ("RPAREN" :> <<-31>>),
    (* 71 *) ("ENDIF" :> <<-24>>)
  >>

lr_goto ==
  <<
    (*  0 *) ("codeblock" :> 1) @@ ("expression" :> 4) @@ ("statement" :> 2),
    (*  1 *) <<>>,
    (*  2 *) <<>>,
    (*  3 *) ("codeblock" :> 20) @@ ("expression" :> 4) @@ ("statement" :> 2),
    (*  4 *) <<>>,
    (*  5 *) ("expression" :> 26) @@ ("statement" :> 25) @@ ("args" :> 23),
    (*  6 *) ("expression" :> 4) @@ ("statement" :> 27),
    (*  7 *) ("expression" :> 4) @@ ("statement" :> 28),
    (*  8 *) <<>>,
    (*  9 *) <<>>,
    (* 10 *) <<>>,
    (* 11 *) <<>>,
    (* 12 *) <<>>,
    (* 13 *) <<>>,
    (* 14 *) ("codeblock" :> 29) @@ ("expression" :> 4) @@ ("statement" :> 2),
    (* 15 *) ("expression" :> 4) @@ ("statement" :> 30),
    (* 16 *) ("expression" :> 4) @@ ("statement" :> 31),
    (* 17 *) ("expression" :> 32),
    (* 18 *) ("expression" :> 4) @@ ("statement" :> 33),
    (* 19 *) ("expression" :> 4) @@ ("statement" :> 34),
    (* 20 *) <<>>,
    (* 21 *) ("expression" :> 4) @@ ("statement" :> 35),
    (* 22 *) ("expression" :> 26) @@ ("statement" :> 25) @@ ("args" :> 36),
    (* 23 *) <<>>,
    (* 24 *) ("expression" :> 26) @@ ("statement" :> 25) @@ ("args" :> 39),
    (* 25 *) <<>>,
    (* 26 *) <<>>,
    (* 27 *) <<>>,
    (* 28 *) <<>>,
    (* 29 *) <<>>,
    (* 30 *) <<>>,
    (* 31 *) <<>>,
    (* 32 *) <<>>,
    (* 33 *) <<>>,
    (* 34 *) <<>>,
    (* 35 *) <<>>,
    (* 36 *) <<>>,
    (* 37 *) <<>>,
    (* 38 *) <<>>,
    (* 39 *) <<>>,
    (* 40 *) ("expression" :> 26) @@ ("statement" :> 25) @@ ("args" :> 50),
    (* 41 *) <<>>,
    (* 42 *) ("expression" :> 4) @@ ("statement" :> 53),
    (* 43 *) <<>>,
    (* 44 *) ("codeblock" :> 54) @@ ("expression" :> 4) @@ ("statement" :> 2),
    (* 45 *) ("expression" :> 26) @@ ("statement" :> 25) @@ ("args" :> 55),
    (* 46 *) <<>>,
    (* 47 *) <<>>,
    (* 48 *) <<>>,
    (* 49 *) <<>>,
    (* 50 *) <<>>,
    (* 51 *) ("expression" :> 26) @@ ("statement" :> 25) @@ ("args" :> 57),
    (* 52 *) ("expression" :> 26) @@ ("statement" :> 25) @@ ("args" :> 58),
    (* 53 *) <<>>,
    (* 54 *) ("elseblock" :> 61),
    (* 55 *) <<>>,
    (* 56 *) <<>>,
    (* 57 *) <<>>,
    (* 58 *) <<>>,
    (* 59 *) ("expression" :> 26) @@ ("statement" :> 25) @@ ("args" :> 64),
    (* 60 *) <<>>,
    (* 61 *) <<>>,
    (* 62 *) <<>>,
    (* 63 *) <<>>,
    (* 64 *) <<>>,
    (* 65 *) ("expression" :> 26) @@ ("statement" :> 25) @@ ("args" :> 69),
    (* 66 *) ("expression" :> 26) @@ ("statement" :> 25) @@ ("args" :> 70),
    (* 67 *) <<>>,
    (* 68 *) ("codeblock" :> 71) @@ ("expression" :> 4) @@ ("statement" :> 2),
    (* 69 *) <<>>,
    (* 70 *) <<>>,
    (* 71 *) <<>>
  >>
\* The precedence of a token: its association and its level (0: none).
Precedence(a) ==
    LET lv == {i \in 1..Len(precedence) : a \in precedence[i].toks}
    IN  IF lv = {} THEN [assoc |-> "right", level |-> 0]
        ELSE LET i == CHOOSE i \in lv : TRUE
             IN  [assoc |-> precedence[i].assoc, level |-> i]

\* The precedence of a rule: that of the rightmost terminal of its right-hand
\* side.
ProductionPrec(p) ==
    LET rhs == Productions[p].rhs
        ts == {i \in 1..Len(rhs) : rhs[i] \in tokens}
    IN  IF ts = {} THEN [assoc |-> "right", level |-> 0]
        ELSE Precedence(rhs[CHOOSE i \in ts : \A j \in ts : j <= i])

\* The table generator's resolution of the actions the items of a state offer
\* on a token, met in order: st is the action kept so far ({}: none),
\* c the next candidate (j > 0: shift to state j; -p < 0: reduce by rule p;
\* 0: accept).
ResolveOne(st, c, a) ==
    IF st = {} THEN {c}
    ELSE LET r == CHOOSE r \in st : TRUE
             s == Precedence(a)
         IN  IF c < 0 /\ r > 0
             THEN \* a reduce meets the shift kept
                  LET rp == ProductionPrec(-c)
                  IN  IF s.level < rp.level \/ (s.level = rp.level /\ rp.assoc = "left")
                      THEN {c}
                      ELSE IF s.level = rp.level /\ rp.assoc = "nonassoc"
                      THEN {}
                      ELSE st
             ELSE IF c < 0 /\ r < 0
             THEN \* reduce/reduce: the rule defined first
                  IF Productions[-r].line > Productions[-c].line THEN {c} ELSE st
             ELSE IF c > 0 /\ r < 0
             THEN \* a shift meets the reduce kept
                  LET rp == ProductionPrec(-r)
                  IN  IF s.level > rp.level \/ (s.level = rp.level /\ rp.assoc = "right")
                      THEN {c}
                      ELSE IF s.level = rp.level /\ rp.assoc = "nonassoc"
                      THEN {}
                      ELSE st
             ELSE st

RECURSIVE Resolve(_, _, _, _)
Resolve(cands, i, st, a) ==
    IF i > Len(cands) THEN st
    ELSE Resolve(cands, i + 1, ResolveOne(st, cands[i], a), a)

\* actions[state].get(ltype): {} for None.
lr_action(state, ltype) ==
    LET row == lr_candidates[state + 1]
    IN  IF ltype \in DOMAIN row THEN Resolve(row[ltype], 1, {}, ltype) ELSE {}

(***************************************************************************)
(* The parser: parser.parse(code)                                          *)
(***************************************************************************)
NoLookahead == [type |-> "None"]

\* The parser's stacks as parse() sets them up; lexer is the lexer object the
\* parser reads its tokens from.
NewParser(lexer) ==
    [lexer |-> lexer,
     statestack |-> <<0>>,
     symstack |-> <<[type |-> "$end", value |-> <<>>, lineno |-> 0, lexpos |-> 0]>>,
     lookahead |-> NoLookahead]

ParserState(p) == p.statestack[Len(p.statestack)]

ParserAction(p) == lr_action(ParserState(p), p.lookahead.type)

parser_shift(p, j) ==
    [p EXCEPT !.statestack = Append(@, j),
              !.symstack = Append(@, p.lookahead),
              !.lookahead = NoLookahead]

parser_reduce(p, n) ==
    LET prod == Productions[n]
        plen == Len(prod.rhs)
        k == Len(p.symstack)
        targ == SubSeq(p.symstack, k - plen + 1, k)
        sym == [type |-> prod.lhs, value |-> callable(prod.name, targ),
                lineno |-> 0, lexpos |-> 0]
        states == SubSeq(p.statestack, 1, Len(p.statestack) - plen)
    IN  [p EXCEPT !.symstack = Append(SubSeq(p.symstack, 1, k - plen), sym),
                  !.statestack = Append(states, lr_goto[states[Len(states)] + 1][prod.lhs])]

parser_accept(p) == [kind |-> "ast", ast |-> p.symstack[Len(p.symstack)].value]

NoResult == [kind |-> "none"]

(***************************************************************************)
(* build_ast as a state machine.  Each caller t runs one call on text[t].  *)
(* lex.lex() makes a new lexer object and leaves it in the lex module's    *)
(* global (lex_lexer); parser.parse(code), given no lexer, takes the one   *)
(* that global holds.                                                      *)
(***************************************************************************)
VARIABLES text, pc, code, lexers, lex_lexer, parser, result

vars == <<text, pc, code, lexers, lex_lexer, parser, result>>

Threads == {1, 2}

\* code = code.rstrip() + '\n' ; lex.lex()
build_ast_lex(t) ==
    /\ pc[t] = "call"
    /\ code' = [code EXCEPT ![t] = rstrip(text[t]) \o <<"\n">>]
    /\ lexers' = [lexers EXCEPT ![t] = NewLexer]
    /\ lex_lexer' = t
    /\ pc' = [pc EXCEPT ![t] = "lexed"]
    /\ UNCHANGED <<text, parser, result>>

\* parser = yacc.yacc() ; parser.parse(code) up to its loop: the lexer is
\* lex.lexer, and it is given the text.
build_ast_parse(t) ==
    /\ pc[t] = "lexed"
    /\ parser' = [parser EXCEPT ![t] = NewParser(lex_lexer)]
    /\ lexers' = [lexers EXCEPT ![lex_lexer] = lexer_input(@, code[t])]
    /\ pc' = [pc EXCEPT ![t] = "parse"]
    /\ UNCHANGED <<text, code, lex_lexer, result>>

\* The parse loop needs a lookahead: lexer.token(), which raises through
\* t_error on a character no rule matches.
token(t) ==
    /\ pc[t] = "parse"
    /\ parser[t].lookahead.type = "None"
    /\ LET r == lexer_token(lexers[parser[t].lexer])
       IN  /\ lexers' = [lexers EXCEPT ![parser[t].lexer] = r.lexer]
           /\ IF r.tok.type = "error"
              THEN /\ result' = [result EXCEPT ![t] = t_error(r.tok)]
                   /\ pc' = [pc EXCEPT ![t] = "done"]
                   /\ UNCHANGED parser
              ELSE /\ parser' = [parser EXCEPT ![t].lookahead = r.tok]
                   /\ UNCHANGED <<pc, result>>
    /\ UNCHANGED <<text, code, lex_lexer>>

shift(t) ==
    /\ pc[t] = "parse"
    /\ parser[t].lookahead.type # "None"
    /\ \E j \in ParserAction(parser[t]) :
          /\ j > 0
          /\ parser' = [parser EXCEPT ![t] = parser_shift(@, j)]
    /\ UNCHANGED <<text, pc, code, lexers, lex_lexer, result>>

reduce(t) ==
    /\ pc[t] = "parse"
    /\ parser[t].lookahead.type # "None"
    /\ \E n \in ParserAction(parser[t]) :
          /\ n < 0
          /\ parser' = [parser EXCEPT ![t] = parser_reduce(@, -n)]
    /\ UNCHANGED <<text, pc, code, lexers, lex_lexer, result>>

accept(t) ==
    /\ pc[t] = "parse"
    /\ parser[t].lookahead.type # "None"
    /\ ParserAction(parser[t]) = {0}
    /\ result' = [result EXCEPT ![t] = parser_accept(parser[t])]
    /\ pc' = [pc EXCEPT ![t] = "done"]
    /\ UNCHANGED <<text, code, lexers, lex_lexer, parser>>

\* No action for the lookahead: p_error raises.
syntax_error(t) ==
    /\ pc[t] = "parse"
    /\ parser[t].lookahead.type # "None"
    /\ ParserAction(parser[t]) = {}
    /\ result' = [result EXCEPT ![t] = p_error(parser[t].lookahead)]
    /\ pc' = [pc EXCEPT ![t] = "done"]
    /\ UNCHANGED <<text, code, lexers, lex_lexer, parser>>

\* One whole call on its own: what build_ast(txt) returns or raises when
\* nothing else runs.
RECURSIVE RunParser(_, _)
RunParser(lx, p) ==
    IF p.lookahead.type = "None"
    THEN LET r == lexer_token(lx)
         IN  IF r.tok.type = "error" THEN t_error(r.tok)
             ELSE RunParser(r.lexer, [p EXCEPT !.lookahead = r.tok])
    ELSE LET a == ParserAction(p)
         IN  IF a = {} THEN p_error(p.lookahead)
             ELSE LET x == CHOOSE x \in a : TRUE
                  IN  IF x > 0 THEN RunParser(lx, parser_shift(p, x))
                      ELSE IF x < 0 THEN RunParser(lx, parser_reduce(p, -x))
                      ELSE parser_accept(p)

build_ast(txt) ==
    RunParser(lexer_input(NewLexer, rstrip(txt) \o <<"\n">>), NewParser(0))

(***************************************************************************)
(* Reading an AST                                                          *)
(***************************************************************************)
LeafKinds ==
    {"AtomExpression", "IntExpression", "BoolExpression", "StringExpression"}

\* The nodes a node owns, in the order of the source text.
Children(n) ==
    CASE n.kind = "CodeBlock" -> n.statements
      [] n.kind = "Arguments" ->
           n.positional \o [i \in 1..Len(n.keyword) |-> n.keyword[i].value]
      [] n.kind = "Assignment" -> <<n.target, n.value>>
      [] n.kind \in {"Comparison", "AndStatement", "OrStatement"} -> <<n.left, n.right>>
      [] n.kind = "FunctionCall" -> <<n.name, n.args>>
      [] n.kind = "MethodCall" -> <<n.receiver, n.name, n.args>>
      [] n.kind = "IfStatement" -> <<n.condition, n.thenBlock, n.elseBlock>>
      [] n.kind = "ArrayStatement" -> <<n.elements>>
      [] OTHER -> <<>>

\* The position of the first token of the text a node covers, from the
\* positions its leaves recorded; -1 where the node does not tell (an argument
\* list that is empty or has keyword arguments, whose names are not nodes; a
\* parenthesis in front of an operand is not seen either).
RECURSIVE LeftPos(_)
LeftPos(n) ==
    CASE n.kind \in LeafKinds \cup {"IfStatement", "ArrayStatement"} -> n.lexpos
      [] n.kind = "Assignment" -> LeftPos(n.target)
      [] n.kind \in {"Comparison", "AndStatement", "OrStatement"} -> LeftPos(n.left)
      [] n.kind = "FunctionCall" -> LeftPos(n.name)
      [] n.kind = "MethodCall" -> LeftPos(n.receiver)
      [] n.kind = "CodeBlock" ->
           IF n.statements = <<>> THEN -1 ELSE LeftPos(n.statements[1])
      [] n.kind = "Arguments" ->
           IF n.positional # <<>> /\ n.keyword = <<>>
           THEN LeftPos(n.positional[1]) ELSE -1
      [] OTHER -> -1

\* A node as nested tuples, the kind first; with lines = FALSE the line
\* numbers and positions are left out (the structure alone).
RECURSIVE Repr(_, _)
Repr(n, lines) ==
    LET at == IF lines THEN <<n.lineno>> ELSE <<>>
        sub == Children(n)
        subs == [i \in 1..Len(sub) |-> Repr(sub[i], lines)]
    IN  CASE n.kind = "None" -> <<"None">>
          [] n.kind \in LeafKinds ->
               <<n.kind, n.value>> \o at \o (IF lines THEN <<n.lexpos>> ELSE <<>>)
          [] n.kind = "Comparison" -> <<n.kind, n.op, subs>> \o at
          [] n.kind = "Arguments" ->
               <<n.kind, [i \in 1..Len(n.keyword) |-> n.keyword[i].key],
                 Len(n.positional), subs>> \o at
          [] OTHER -> <<n.kind, subs>> \o at

\* What a call gave, as tuples: the AST or the exception.
Outcome(r, lines) ==
    CASE r.kind = "ast" -> <<"ast", Repr(r.ast, lines)>>
      [] r.kind = "ParserException" ->
           <<"ParserException", r.msg, r.arg>> \o (IF lines THEN <<r.lineno>> ELSE <<>>)
      [] OTHER -> <<"none">>

\* The positions of the leaves of a node, in the order the tree holds them.
RECURSIVE Fringe(_)
RECURSIVE FringeOfSeq(_)
FringeOfSeq(s) ==
    IF s = <<>> THEN <<>> ELSE Fringe(Head(s)) \o FringeOfSeq(Tail(s))

Fringe(n) ==
    IF n.kind \in LeafKinds THEN <<n.lexpos>> ELSE FringeOfSeq(Children(n))

\* Every token of a text, lexed from a fresh lexer, up to its end or to the
\* first character no rule matches.
RECURSIVE TokensFrom(_)
TokensFrom(lx) ==
    LET r == lexer_token(lx)
    IN  IF r.tok.type \in {"$end", "error"} THEN <<>>
        ELSE <<r.tok>> \o TokensFrom(r.lexer)

Tokens(s) == TokensFrom(lexer_input(NewLexer, s))

\* The 1-based physical line of position p of text s.
PhysLine(s, p) == 1 + CountNewlines(Slice(s, 0, p))

SelectTokens(toks, types) == SelectSeq(toks, LAMBDA k : k.type \in types)

(***************************************************************************)
(* Input texts                                                             *)
(***************************************************************************)
RECURSIVE Cat(_)
Cat(ss) == IF ss = <<>> THEN <<>> ELSE Head(ss) \o Cat(Tail(ss))

RECURSIVE Rep(_, _)
Rep(s, n) == IF n <= 0 THEN <<>> ELSE s \o Rep(s, n - 1)

NL == <<"\n">>

\* Operator texts: operands a, b, c, ... joined by operators, with at most
\* one pair of parentheses, around two neighbouring operands.
MaxOperands == 4

OperandNames == <<"a", "b", "c", "d", "e", "g", "h">>

OpWords ==
    << <<" ", "=", "=", " ">>, <<" ", "!", "=", " ">>, <<" ", "a", "n", "d", " ">>,
       <<" ", "o", "r", " ">>, <<" ", "=", " ">> >>

OpText(n, f, lo) ==
    Cat([i \in 1..n |->
           (IF i = lo THEN <<"(">> ELSE <<>>)
           \o <<OperandNames[i]>>
           \o (IF lo > 0 /\ i = lo + 1 THEN <<")">> ELSE <<>>)
           \o (IF i < n THEN OpWords[f[i]] ELSE <<>>)])

OpTexts ==
    {OpText(nf[1], nf[2], lo) :
        nf \in UNION {{<<n, f>> : f \in [1..(n - 1) -> 1..Len(OpWords)]} : n \in 1..MaxOperands},
        lo \in 0..(MaxOperands - 1)}

\* Code blocks: statements on lines of their own, blank lines around them,
\* and an if-statement with its branches between them.
MaxStmts == 2
MaxBlank == 1

Line(c) == <<c, "\n">>

FlatText(pre, n, gap, post) ==
    Rep(NL, pre) \o Rep(Line("s") \o Rep(NL, gap), n) \o Rep(NL, post)

IfText(before, k1, b1, b2, else, k2, b3, after) ==
    Rep(Line("p"), before)
    \o <<"i", "f", " ", "c", "\n">>
    \o Rep(NL, b1) \o Rep(Line("t"), k1) \o Rep(NL, b2)
    \o (IF else
        THEN <<"e", "l", "s", "e", "\n">> \o Rep(Line("e"), k2) \o Rep(NL, b3)
        ELSE <<>>)
    \o <<"e", "n", "d", "i", "f", "\n">>
    \o Rep(Line("q"), after)

BlockTexts ==
    {FlatText(pre, n, gap, post) :
        pre \in 0..MaxBlank, n \in 0..(MaxStmts + 1), gap \in 0..MaxBlank, post \in 0..MaxBlank}
    \cup
    {IfText(x[1], x[2], x[3], x[4], x[5], x[6], x[7], x[8]) :
        x \in (0..1) \X (0..MaxStmts) \X (0..MaxBlank) \X (0..MaxBlank)
              \X BOOLEAN \X (0..MaxStmts) \X {0} \X (0..1)}
    \cup
    {IfText(0, 1, 0, 0, TRUE, 1, b3, 0) : b3 \in 0..MaxBlank}

\* Calls and arrays: f(...) with up to MaxArgs arguments, each an atom, a
\* string or a keyword argument, separated by a comma that a line break may
\* follow or precede; [...] with commas alone.
MaxArgs == 3

ArgWords ==
    << <<"x">>, <<"'", "a", "'">>, <<"b", " ", ":", " ", "2">> >>

SepWords == << <<",", " ">>, <<",", "\n">>, <<"\n", ",">> >>

ArgList(n, kinds, seps) ==
    Cat([i \in 1..n |->
           ArgWords[kinds[i]] \o (IF i < n THEN SepWords[seps[i]] ELSE <<>>)])

ArgTexts ==
    UNION {
        {<<"f", "(">> \o ArgList(n, kinds, seps) \o <<")">> :
            kinds \in [1..n -> 1..Len(ArgWords)],
            seps \in [1..(n - 1) -> 1..Len(SepWords)]}
        \cup
        {<<"[">> \o ArgList(n, kinds, [i \in 1..(n - 1) |-> 1]) \o <<"]">> :
            kinds \in [1..n -> 1..Len(ArgWords)]}
        : n \in 0..MaxArgs}

\* Multi-line strings: lead blank lines, then a statement that opens a
\* multi-line string with k newlines in it, then an atom on the next line.
MaxLead == 2
MaxNewlines == 3

MultilineText(lead, k, assign) ==
    Rep(NL, lead)
    \o (IF assign THEN <<"x", " ", "=", " ">> ELSE <<>>)
    \o <<"'", "'", "'">> \o Rep(<<"s", "\n">>, k) \o <<"'", "'", "'">>
    \o NL \o <<"y">> \o NL

MultilineTexts ==
    {MultilineText(lead, k, assign) :
        lead \in 0..MaxLead, k \in 0..MaxNewlines, assign \in BOOLEAN}

\* Single texts.
T_three_statements == <<"a", "\n", "b", "\n", "c", "\n">>

T_call_pos_kw ==
    <<"f", "(", "'", "a", "'", ",", " ", "b", " ", ":", " ", "2", ")">>

T_call_kw_pos ==
    <<"f", "(", "b", " ", ":", " ", "2", ",", " ", "'", "a", "'", ")">>

T_two_groups(op) ==
    <<"(", "a", " ", "=", "=", " ", "b", ")">> \o op
    \o <<"(", "c", " ", "=", "=", " ", "d", ")">>

T_unclosed_call == <<"f", "(", "1", ",", " ", "2", "\n">>

T_illegal == <<"x", " ", "=", " ", "1", "\n", "y", " ", "@">>

T_string_newline_illegal == <<"'", "a", "\n", "b", "'", " ", "@">>

T_string_newline_token == <<"x", " ", "=", " ", "'", "a", "\n", "b", "'", "\n", "y", " ", ")">>

T_continuation == <<"f", "(", "1", ",", "\\", "\n", "2", ")", "\n">>

T_continuation_error == <<"a", " ", "\\", " ", "\n", " ", "=", "=", " ", ")">>

T_comment == <<"x", " ", "=", " ", "1", " ", "#", " ", "c", "\n", "#", "d", "\n", "y", "\n">>

T_comment_last == <<"s", "\n", "#", "c", "\n">>

T_method == <<"a", ".", "b", "(", "c", ")", ".", "d", "(", "t", "r", "u", "e", ",", " ", "f", "a", "l", "s", "e", ")">>

T_multiline_error == <<"'", "'", "'", "s", "\n", "s", "'", "'", "'", " ", "'", "'", "'", "t", "\n", "'", "'", "'">>

SingleTexts ==
    {T_three_statements, T_call_pos_kw, T_call_kw_pos, T_two_groups(OpWords[3]), T_two_groups(OpWords[4]),
     T_unclosed_call, T_illegal, T_string_newline_illegal, T_string_newline_token,
     T_continuation, T_continuation_error, T_comment, T_comment_last, T_method,
     T_multiline_error}

Inputs == OpTexts \cup BlockTexts \cup ArgTexts \cup MultilineTexts \cup SingleTexts

\* Two callers at once.
ConcInputs == {<<"a", "\n", "b">>, <<"c", " ", "=", " ", "1">>, <<"d", " ", ")">>}

(***************************************************************************)
(* Specifications                                                          *)
(***************************************************************************)
Init ==
    /\ \E x \in Inputs : text = [t \in Threads |-> IF t = 1 THEN x ELSE <<>>]
    /\ pc = [t \in Threads |-> IF t = 1 THEN "call" ELSE "idle"]
    /\ code = [t \in Threads |-> <<>>]
    /\ lexers = [t \in Threads |-> NewLexer]
    /\ lex_lexer = 0
    /\ parser = [t \in Threads |-> NewParser(0)]
    /\ result = [t \in Threads |-> NoResult]

\* One caller.
Next ==
    \E t \in {1} :
        \/ build_ast_lex(t)
        \/ build_ast_parse(t)
        \/ token(t)
        \/ shift(t)
        \/ reduce(t)
        \/ accept(t)
        \/ syntax_error(t)

Spec == Init /\ [][Next]_vars

InitConc ==
    /\ text \in [Threads -> ConcInputs]
    /\ pc = [t \in Threads |-> "call"]
    /\ code = [t \in Threads |-> <<>>]
    /\ lexers = [t \in Threads |-> NewLexer]
    /\ lex_lexer = 0
    /\ parser = [t \in Threads |-> NewParser(0)]
    /\ result = [t \in Threads |-> NoResult]

\* Two callers on separate threads, their steps interleaved.
NextConc ==
    \E t \in Threads :
        \/ build_ast_lex(t)
        \/ build_ast_parse(t)
        \/ token(t)
        \/ shift(t)
        \/ reduce(t)
        \/ accept(t)
        \/ syntax_error(t)

SpecConc == InitConc /\ [][NextConc]_vars

(***************************************************************************)
(* Properties.  The single caller of Spec is caller 1.                     *)
(***************************************************************************)
Done == pc[1] = "done"

Ok == result[1].kind = "ast"

Err == result[1].kind = "ParserException"

ParseError == Err /\ result[1].msg = "Parser errored out at"

\* The structure of what the call gave.
Structure == Outcome(result[1], FALSE)

\* Structures, written out.
Atom(c) == <<"AtomExpression", <<c>>>>

Block(stmts) == <<"ast", <<"CodeBlock", stmts>>>>

Cmp(l, r) == <<"Comparison", <<"=", "=">>, <<l, r>>>>

Asg(l, r) == <<"Assignment", <<l, r>>>>

Bool(op, l, r) ==
    <<(IF op = 3 THEN "AndStatement" ELSE "OrStatement"), <<l, r>>>>

\* Every node of a tree: the node itself and the nodes below it.
RECURSIVE Nodes(_)
RECURSIVE NodesOfSeq(_)
NodesOfSeq(s) ==
    IF s = <<>> THEN <<>> ELSE Nodes(Head(s)) \o NodesOfSeq(Tail(s))

Nodes(n) == <<n>> \o NodesOfSeq(Children(n))

\* A property of every node of the AST the call returned.
EveryNode(P(_)) ==
    LET ns == Nodes(result[1].ast)
    IN  \A i \in 1..Len(ns) : P(ns[i])

SomeNode(P(_)) ==
    LET ns == Nodes(result[1].ast)
    IN  \E i \in 1..Len(ns) : P(ns[i])

ChildKinds(n) == {Children(n)[i].kind : i \in 1..Len(Children(n))}

CodeTokens == Tokens(code[1])

LeafTypes == {"ATOM", "INT", "STRING", "MULTILINE_STRING", "TRUE", "FALSE"}

HasToken(toks, types) == \E i \in 1..Len(toks) : toks[i].type \in types

\* The text is one statement of operands joined by operators, with no
\* parentheses.
OperatorText(toks) ==
    /\ \A i \in 1..Len(toks) :
          toks[i].type \in {"ATOM", "EQUALS", "NEQUALS", "AND", "OR", "ASSIGN", "EOL"}
    /\ Len(SelectTokens(toks, {"EOL"})) = 1

----------------------------------------------------------------------------
\* The elements of a sequence of nodes begin one after the other in the text.
Ascending(s) == \A i \in 1..(Len(s) - 1) : LeftPos(s[i]) < LeftPos(s[i + 1])

InSourceOrder(n) ==
    CASE n.kind = "CodeBlock" -> Ascending(n.statements)
      [] n.kind = "Arguments" -> Ascending(n.positional)
      [] OTHER -> TRUE

\* C1: of every text that parses, the statements of each CodeBlock and the
\* positional arguments of each Arguments are in the order in which their
\* first tokens stand in the text, none is lost (where no argument is a keyword
\* argument, the leaves of the tree are the operand tokens of the text, in
\* their order), and a, b, c on three lines gives the statements [a, b, c].
C1_SourceOrder ==
    Done =>
       /\ Ok =>
            LET toks == CodeTokens
                operands == SelectTokens(toks, LeafTypes)
            IN  /\ EveryNode(InSourceOrder)
                /\ ~HasToken(toks, {"COLON"}) =>
                      Fringe(result[1].ast)
                        = [i \in 1..Len(operands) |-> operands[i].lexpos]
       /\ text[1] = T_three_statements =>
            Structure = Block(<<Atom("a"), Atom("b"), Atom("c")>>)

C1_Witness ==
    /\ Done
    /\ Ok
    /\ Len(result[1].ast.statements) >= 2
    /\ SomeNode(LAMBDA n : /\ n.kind = "IfStatement"
                           /\ Len(n.thenBlock.statements) >= 2
                           /\ n.elseBlock.kind = "CodeBlock"
                           /\ Len(n.elseBlock.statements) >= 2)

----------------------------------------------------------------------------
\* What f('a', b : 2) is to give: one positional string, one keyword b
\* bound to the integer 2.
CallOneOfEach ==
    Block(<< <<"FunctionCall",
               <<Atom("f"),
                 <<"Arguments", << <<"b">> >>, 1,
                   << <<"StringExpression", <<"a">>>>, <<"IntExpression", 2>> >> >> >> >> >>)

\* The text is a call f(...) on one line whose arguments are atoms, strings
\* and keyword arguments with a comma between them.
CallOnOneLine(toks) ==
    LET n == Len(toks)
    IN  /\ n >= 4
        /\ toks[1].type = "ATOM"
        /\ toks[2].type = "LPAREN"
        /\ toks[n - 1].type = "RPAREN"
        /\ toks[n].type = "EOL"
        /\ \A i \in 3..(n - 2) :
              toks[i].type \in {"ATOM", "STRING", "INT", "COLON", "COMMA"}

\* C2 (as stated): f('a', b : 2) parses to an Arguments with one positional
\* string and one keyword entry b bound to the integer 2, and f(b : 2, 'a'),
\* where the positional argument follows the keyword argument, is a syntax
\* error.
C2_PositionalAfterKeywordRejected ==
    Done =>
       /\ text[1] = T_call_pos_kw => Structure = CallOneOfEach
       /\ text[1] = T_call_kw_pos => Err

\* C2 (amended): a positional argument after a keyword argument is accepted.
\* f('a', b : 2) and f(b : 2, 'a') both parse, to the same Arguments: one
\* positional string and one keyword entry b bound to the integer 2; and a
\* call on one line parses whatever the order of its positional and keyword
\* arguments.
C2_PositionalAfterKeywordAccepted ==
    Done =>
       /\ text[1] \in {T_call_pos_kw, T_call_kw_pos} => Structure = CallOneOfEach
       /\ CallOnOneLine(CodeTokens) => Ok

C2_Witness ==
    /\ Done
    /\ text[1] = T_call_kw_pos
    /\ Ok
    /\ SomeNode(LAMBDA n : n.kind = "Arguments" /\ Len(n.positional) = 1
                           /\ Len(n.keyword) = 1)

----------------------------------------------------------------------------
ComparisonTypes == {"EQUALS", "NEQUALS"}

\* The nesting level of the i-th token: the brackets open in front of it.
Depth(toks, i) ==
    Cardinality({k \in 1..(i - 1) : toks[k].type \in {"LPAREN", "LBRACKET"}})
    - Cardinality({k \in 1..(i - 1) : toks[k].type \in {"RPAREN", "RBRACKET"}})

\* At the level of an operand, the tokens that end it.
OperandEnd ==
    {"EQUALS", "NEQUALS", "AND", "OR", "ASSIGN", "COMMA", "COLON", "EOL",
     "RPAREN", "RBRACKET", "IF", "ELSE", "ENDIF"}

\* Two comparison operators at one nesting level with one operand, and nothing
\* else of that level, between them: x == y == z.
ChainAt(toks, i, j) ==
    /\ i < j
    /\ toks[i].type \in ComparisonTypes
    /\ toks[j].type \in ComparisonTypes
    /\ Depth(toks, i) = Depth(toks, j)
    /\ \A k \in (i + 1)..(j - 1) :
          /\ Depth(toks, k) >= Depth(toks, i)
          /\ Depth(toks, k) = Depth(toks, i) => toks[k].type \notin OperandEnd

HasChain(toks) ==
    \E i \in 1..Len(toks) :
       /\ toks[i].type \in ComparisonTypes
       /\ \E j \in (i + 1)..Len(toks) : ChainAt(toks, i, j)

\* C3: a text that chains two comparison operators (== or !=, in any mix) at
\* one nesting level without parentheses raises a parse error, at the second
\* operator in a == b == c; a == (b == c) parses to a Comparison whose right
\* operand is a Comparison.
C3_ComparisonNonAssociative ==
    Done =>
       /\ HasChain(CodeTokens) => ParseError
       /\ \A f \in [1..2 -> {1, 2}] :
             text[1] = OpText(3, f, 0) =>
                /\ ParseError
                /\ result[1].arg = SubSeq(OpWords[f[2]], 2, 3)
                /\ result[1].lineno = 1
       /\ text[1] = OpText(3, <<1, 1>>, 2) =>
             Structure = Block(<<Cmp(Atom("a"), Cmp(Atom("b"), Atom("c")))>>)

C3_Witness ==
    /\ Done
    /\ text[1] = OpText(3, <<1, 2>>, 0)
    /\ HasChain(CodeTokens)
    /\ ParseError

----------------------------------------------------------------------------
\* The position of the last leaf of a node.
LastLeaf(n) == Fringe(n)[Len(Fringe(n))]

ExamplesOfBinding ==
    /\ text[1] = OpText(3, <<5, 1>>, 0) =>
          Structure = Block(<<Asg(Atom("a"), Cmp(Atom("b"), Atom("c")))>>)
    /\ text[1] = OpText(3, <<4, 3>>, 0) =>
          Structure = Block(<<Bool(4, Atom("a"), Bool(3, Atom("b"), Atom("c")))>>)
    /\ text[1] = OpText(3, <<3, 4>>, 0) =>
          Structure = Block(<<Bool(4, Bool(3, Atom("a"), Atom("b")), Atom("c"))>>)
    /\ text[1] = OpText(3, <<4, 4>>, 0) =>
          Structure = Block(<<Bool(4, Bool(4, Atom("a"), Atom("b")), Atom("c"))>>)

\* AND binds tighter than OR and both are left-associative: without
\* parentheses no OR is an operand of an AND, no AND the right operand of an
\* AND, no OR the right operand of an OR.
BooleanBinding(n) ==
    /\ n.kind = "AndStatement" =>
          /\ "OrStatement" \notin ChildKinds(n)
          /\ n.right.kind # "AndStatement"
    /\ n.kind = "OrStatement" => n.right.kind # "OrStatement"

\* Assignment binds looser than an operator: without parentheses no
\* assignment is an operand of a comparison, an AND or an OR.
AssignmentLooser(n) ==
    n.kind \in {"Comparison", "AndStatement", "OrStatement"} =>
       "Assignment" \notin ChildKinds(n)

\* The value of an assignment runs to the end of the statement, over every
\* operator to the right; its target is the one operand to the left.
AssignmentValueToTheEnd(n) ==
    n.kind = "Assignment" =>
       /\ n.target.kind = "AtomExpression"
       /\ LastLeaf(n) = LastLeaf(result[1].ast)

\* C9 (as stated): binding follows the precedence table: assignment binds
\* looser than comparison and the boolean operators, AND tighter than OR, AND
\* and OR left-associative, in every statement of operands and operators
\* without parentheses; so a = b == c is Assignment(a, Comparison(b, c)),
\* a or b and c is Or(a, And(b, c)), a and b or c is Or(And(a, b), c) and
\* a or b or c is Or(Or(a, b), c).
C9_BindingFollowsTable ==
    Done =>
       /\ ExamplesOfBinding
       /\ Ok /\ OperatorText(CodeTokens) =>
            /\ EveryNode(BooleanBinding)
            /\ EveryNode(AssignmentLooser)

\* C9 (amended): the four examples parse as stated, AND binds tighter than OR
\* and both are left-associative; assignment binds looser than comparison and
\* the boolean operators to its right only (its value runs to the end of
\* the statement), while its target is a single expression, so that an operator
\* to the left of the target takes the whole assignment as its right operand:
\* a == b = c parses as Comparison(a, Assignment(b, c)).
C9_BindingAmended ==
    Done =>
       /\ ExamplesOfBinding
       /\ Ok /\ OperatorText(CodeTokens) =>
            /\ EveryNode(BooleanBinding)
            /\ EveryNode(AssignmentValueToTheEnd)
       /\ text[1] = OpText(3, <<1, 5>>, 0) =>
            Structure = Block(<<Cmp(Atom("a"), Asg(Atom("b"), Atom("c")))>>)

C9_Witness ==
    /\ Done
    /\ text[1] = OpText(3, <<4, 3>>, 0)
    /\ Ok
    /\ result[1].ast.statements[1].kind = "OrStatement"
    /\ result[1].ast.statements[1].right.kind = "AndStatement"

----------------------------------------------------------------------------
\* C10: without parentheses a boolean combination of two comparisons never
\* parses as a combination of comparisons.  For op in {and, or}:
\* a == b op c == d raises a parse error (and so does every statement of
\* operands with two comparison operators and boolean operators alone beside
\* them), a == b op c parses as Comparison(a, op(b, c)), no AND or OR of a
\* statement without parentheses has a Comparison for an operand, and
\* (a == b) op (c == d) parses as op of two Comparisons.
C10_BooleanOfComparisons ==
    Done =>
       /\ \A op \in {3, 4} :
             /\ text[1] = OpText(4, <<1, op, 1>>, 0) => ParseError
             /\ text[1] = OpText(3, <<1, op>>, 0) =>
                   Structure = Block(<<Cmp(Atom("a"), Bool(op, Atom("b"), Atom("c")))>>)
             /\ text[1] = T_two_groups(OpWords[op]) =>
                   Structure = Block(<<Bool(op, Cmp(Atom("a"), Atom("b")),
                                                Cmp(Atom("c"), Atom("d")))>>)
       /\ LET toks == CodeTokens
          IN  OperatorText(toks) /\ ~HasToken(toks, {"ASSIGN"})
                 /\ Len(SelectTokens(toks, ComparisonTypes)) >= 2 => ParseError
       /\ Ok /\ OperatorText(CodeTokens) =>
            EveryNode(LAMBDA n : n.kind \in {"AndStatement", "OrStatement"} =>
                                    "Comparison" \notin ChildKinds(n))

C10_Witness ==
    /\ Done
    /\ text[1] = OpText(3, <<1, 3>>, 0)
    /\ Ok
    /\ result[1].ast.statements[1].kind = "Comparison"
    /\ result[1].ast.statements[1].right.kind = "AndStatement"

----------------------------------------------------------------------------
\* The line of the leaf of the AST that the token at position p made.
LeafLine(p) ==
    LET ns == Nodes(result[1].ast)
        at == {i \in 1..Len(ns) : ns[i].kind \in LeafKinds /\ ns[i].lexpos = p}
    IN  ns[CHOOSE i \in at : TRUE].lineno

\* The i-th token is a multi-line string with k newlines in it, which ends
\* its line, and an atom begins the next line.
StringThenAtom(toks, i, k) ==
    /\ i + 2 <= Len(toks)
    /\ toks[i].type = "MULTILINE_STRING"
    /\ CountNewlines(toks[i].value) = k
    /\ toks[i + 1].type = "EOL"
    /\ toks[i + 2].type = "ATOM"

\* C6 (as stated): when a multi-line string with 3 newlines in it opens on
\* line L and an atom follows on the next logical line, the atom's node has
\* line L + 3.
C6_ThreeNewlinesThreeLines ==
    Done /\ Ok =>
       LET toks == CodeTokens
       IN  \A i \in 1..Len(toks) :
              StringThenAtom(toks, i, 3) =>
                 LeafLine(toks[i + 2].lexpos) = PhysLine(code[1], toks[i].lexpos) + 3

\* C6 (amended): when a multi-line string with k newlines in it opens on
\* line L and an atom follows on the next logical line, the string's node
\* has line L and the atom's node line L + k + 1, the line break that ends the
\* string's line counting too: L + 4 for 3 newlines.
C6_NewlinesPlusOne ==
    Done /\ Ok =>
       LET toks == CodeTokens
       IN  \A i \in 1..Len(toks) :
              \A k \in 0..MaxNewlines :
                 StringThenAtom(toks, i, k) =>
                    /\ LeafLine(toks[i].lexpos) = PhysLine(code[1], toks[i].lexpos)
                    /\ LeafLine(toks[i + 2].lexpos)
                         = PhysLine(code[1], toks[i].lexpos) + k + 1

C6_Witness ==
    /\ Done
    /\ Ok
    /\ LET toks == CodeTokens
       IN  \E i \in 1..Len(toks) :
              /\ StringThenAtom(toks, i, 3)
              /\ PhysLine(code[1], toks[i].lexpos) = 2
              /\ LeafLine(toks[i + 2].lexpos) = 6

----------------------------------------------------------------------------
\* C4: the line of every node of an AST is the line of the leftmost token of
\* the text the node covers (of the nodes whose leftmost token the tree
\* tells).
C4_LineOfLeftmostToken ==
    Done /\ Ok =>
       EveryNode(LAMBDA n :
          LeftPos(n) # -1 => n.lineno = PhysLine(code[1], LeftPos(n)))

----------------------------------------------------------------------------
\* A text without its blank lines.
RECURSIVE DropBlankLines(_, _)
DropBlankLines(s, atLineStart) ==
    IF s = <<>> THEN <<>>
    ELSE IF Head(s) = "\n" /\ atLineStart THEN DropBlankLines(Tail(s), TRUE)
    ELSE <<Head(s)>> \o DropBlankLines(Tail(s), Head(s) = "\n")

\* The text is lines of words and blank lines.
WordsAndBlankLines(s) ==
    \A i \in 1..Len(s) : s[i] \in Letter \cup {" ", "\n"}

\* C7: a text with blank lines before, between or after the statements of a
\* code block (the file body, a branch of an if-statement) parses whenever the
\* text without the blank lines parses, and to the same statements in the same
\* order; a text with no statement at all parses to an empty CodeBlock.
C7_BlankLinesSkipped ==
    Done /\ WordsAndBlankLines(text[1]) =>
       LET plain == DropBlankLines(text[1], TRUE)
       IN  /\ build_ast(plain).kind = "ast" =>
                Structure = Outcome(build_ast(plain), FALSE)
           /\ plain = <<>> => Structure = Block(<<>>)

----------------------------------------------------------------------------
\* C8: a failing call raises a ParserException whose line is -1, with the
\* text NONE, exactly when the parser ran out of input; in every other failure
\* the line is the physical line of the offending token, or of the character
\* no rule matches.
C8_LineOfError ==
    Done /\ Err =>
       IF result[1].msg = "Illegal character"
       THEN /\ result[1].arg = <<code[1][lexers[1].lexpos + 1]>>
            /\ result[1].lineno = PhysLine(code[1], lexers[1].lexpos)
       ELSE IF parser[1].lookahead.type = "$end"
       THEN result[1].lineno = -1 /\ result[1].arg = <<"N", "O", "N", "E">>
       ELSE result[1].lineno = PhysLine(code[1], parser[1].lookahead.lexpos)

----------------------------------------------------------------------------
\* C5: whatever the interleaving of two calls on separate threads, each call
\* returns the AST, or raises the error, with the line numbers, that it gives
\* when it runs alone.
C5_CallsIndependent ==
    \A t \in Threads :
       pc[t] = "done" => Outcome(result[t], TRUE) = Outcome(build_ast(text[t]), TRUE)

====
